---- MODULE Spec2Model ----
(***************************************************************************)
(* Model of the LinkedIn scraper service (src/index-docker-optimized.js):  *)
(* the request queue with its drain loop (processQueue), the orchestrator  *)
(* (scrapeLinkedInProfile) stepping through the browser driver, and the    *)
(* POST /scrape handler.  One action is one run-to-completion turn of the  *)
(* Node event loop: a request handler, or the resumption of an awaiting    *)
(* async function up to its next await.                                    *)
(***************************************************************************)
EXTENDS Integers, Sequences, FiniteSets, TLC

\* ------------------------------------------------------------------ bounds
\* POST /scrape requests received in one run.
MaxRequests == 3
\* The same, in the runs of accepted jobs only (checked for progress, and
\* for what wait_time changes).
MaxLiveRequests == 2

\* --------------------------------------------------------- program constants
\* RATE_LIMIT_DELAY, in clock ticks (3000 ms in the source).
RATE_LIMIT_DELAY == 2
\* The navigation deadline handed to page.goto, in clock ticks (30000 ms).
NAV_TIMEOUT == 1
\* retry_attempts default.
DEFAULT_RETRY_ATTEMPTS == 2

\* ------------------------------------------------------------ JSON values
\* A JSON value of the request body: absent, a number, or a string.  A string
\* is the sequence of its pieces, so that includes() is a real search.
Undefined == [t |-> "undefined", s |-> <<>>]
Num == [t |-> "number", s |-> <<>>]
Str(s) == [t |-> "string", s |-> s]

\* The needle of url.includes('linkedin.com/in/').
PROFILE_PATTERN == <<"linkedin.com", "/in/">>

\* JavaScript truthiness of a url value: undefined and "" are falsy.
Truthy(v) == \/ v.t = "number"
             \/ v.t = "string" /\ v.s # <<>>

\* String.prototype.includes: the needle occurs contiguously in the string.
Includes(s, p) ==
    \E i \in 0..(Len(s) - Len(p)) : \A j \in 1..Len(p) : s[i + j] = p[j]

\* x || d on a number: 0 and undefined (modelled as 0) give the default.
OrDefault(x, d) == IF x = 0 THEN d ELSE x

\* The request bodies POST /scrape is exercised with.
Body(u, p, w, r) == [url |-> u, use_proxy |-> p, wait_time |-> w, retry_attempts |-> r]
Bodies ==
    { Body(Undefined, FALSE, 0, 0),
      Body(Num, FALSE, 0, 0),
      Body(Str(<<"example.com", "/in/", "bob">>), FALSE, 0, 0),
      Body(Str(<<"linkedin.com", "/in/", "alice">>), FALSE, 0, 0),
      Body(Str(<<"www.", "linkedin.com", "/in/", "bob">>), TRUE, 1, 5) }
\* Further request data a direct call of the orchestrator is exercised with:
\* an empty url, and one holding the pieces of the pattern apart.
MoreBodies ==
    { Body(Str(<<>>), FALSE, 0, 0),
      Body(Str(<<"linkedin.com", "/pub/", "/in/">>), TRUE, 0, 0) }

\* ------------------------------------------------------------------ errors
\* An Error: the call that raised it, and whether the orchestrator's catch
\* wrapped it as `Failed to scrape LinkedIn profile: ${error.message}`.
Err(cause, wrapped) == [cause |-> cause, wrapped |-> wrapped]
NoErr == Err("none", FALSE)

\* A settled orchestrator promise: fulfilled with a record or rejected.
Fulfilled(data) == [ok |-> TRUE, data |-> data, error |-> NoErr]
Rejected(e) == [ok |-> FALSE, data |-> {}, error |-> e]
NoResult == [ok |-> FALSE, data |-> {}, error |-> NoErr]

\* An HTTP response; status 0 stands for "not answered yet".
Response(status, success, data, e) ==
    [status |-> status, success |-> success, data |-> data, error |-> e]
NoResponse == Response(0, FALSE, {}, NoErr)

\* res.json(...) / res.status(n).json(...) on the res object of request id.
\* The status of every response is kept; its body only for the latest one.
Send(S, id, resp) ==
    [S EXCEPT !.answered[id] = resp.status,
              !.lastAnswer = [id |-> id, resp |-> resp]]
NoAnswer == [id |-> 0, resp |-> NoResponse]

\* ------------------------------------------------------------ PROXY_CONFIG
\* The proxy configuration read from the environment at start-up; endpoint
\* and username say whether PROXY_ENDPOINT and PROXY_USERNAME are set.
\* enabled: !!(process.env.PROXY_ENDPOINT && process.env.PROXY_USERNAME)
ProxyConfig(endpoint, username) ==
    [enabled |-> endpoint /\ username, endpoint |-> endpoint, username |-> username]

\* The environments the service is run in: proxy fully configured, or not
\* at all.
ServiceEnvironments == {ProxyConfig(TRUE, TRUE), ProxyConfig(FALSE, FALSE)}
\* Every environment, for the orchestrator called on its own.
AllEnvironments == {ProxyConfig(e, u) : e, u \in BOOLEAN}

\* ------------------------------------------------------------------ state
VARIABLES
    alive,          \* the process has not exited (SIGTERM / SIGINT)
    PROXY_CONFIG,   \* PROXY_CONFIG: which of its variables the environment set
    requestQueue,   \* requestQueue: the pending {request, response} entries
    isProcessing,   \* isProcessing
    loops,          \* the processQueue() activations, in the order they began
    calls,          \* the scrapeLinkedInProfile() invocations, in start order
    answered,       \* request id -> the HTTP status sent on its res object
    lastAnswer,     \* the most recent HTTP response, in full
    resolved,       \* ids of the jobs the drain loop answered, in that order
    last,           \* the job that was pending when the last job was answered
                    \* and has not started yet (0: none), and the ticks since
    nreq,           \* POST /scrape requests received so far
    accepted,       \* ids of the requests whose entry was pushed on the queue
    lastPost,       \* the latest POST /scrape: its url and what it changed
    queueErrors     \* rejections of processQueue() seen by its .catch

vars == <<alive, PROXY_CONFIG, requestQueue, isProcessing, loops, calls,
          answered, lastAnswer, resolved, last, nreq, accepted, lastPost,
          queueErrors>>

\* PROXY_CONFIG.enabled
proxyEnabled == PROXY_CONFIG.enabled

\* The scheduler's and the histories' part of the state, as one value the
\* operators below transform.
Cur == [queue |-> requestQueue, flag |-> isProcessing, loops |-> loops,
        calls |-> calls, answered |-> answered, lastAnswer |-> lastAnswer,
        resolved |-> resolved,
        last |-> last, qerrs |-> queueErrors]

Commit(S) ==
    /\ requestQueue' = S.queue
    /\ isProcessing' = S.flag
    /\ loops' = S.loops
    /\ calls' = S.calls
    /\ answered' = S.answered
    /\ lastAnswer' = S.lastAnswer
    /\ resolved' = S.resolved
    /\ last' = S.last
    /\ queueErrors' = S.qerrs

\* ------------------------------------------------- scrapeLinkedInProfile
\* The driver calls the orchestrator awaits, in program order.
DriverSteps == {"launch", "newPage", "setViewport", "setExtraHTTPHeaders",
                "authenticate", "goto", "waitForTimeout", "evaluate", "close"}

\* What page.evaluate can hand back: the extractor's mapping.
ExtractedMappings == { {"name", "headline"}, {"name", "extraction_error"} }
\* The metadata added to the record.
Metadata == {"scraped_at", "url", "user_agent"}

\* How the driver promise awaited at `step` can settle: rejected, or
\* fulfilled (page.evaluate with the extractor's mapping).
DriverOutcomes(step) ==
    {[ok |-> FALSE, data |-> {}]} \cup
    {[ok |-> TRUE, data |-> d] :
        d \in IF step = "evaluate" THEN ExtractedMappings ELSE {{}}}

\* Faulty variant: only the presence of url is checked.
CheckTargetPresenceOnly(url) ==
    IF ~Truthy(url) THEN "invalid" ELSE "ok"

\* if (!url || !url.includes('linkedin.com/in/')): "ok", "invalid", or
\* "throws" when url has no includes method.
CheckTarget(url) ==
    IF ~Truthy(url) THEN "invalid"
    ELSE IF url.t # "string" THEN "throws"
    ELSE IF ~Includes(url.s, PROFILE_PATTERN) THEN "invalid"
    ELSE "ok"

\* Faulty variant: the process-wide configuration is not consulted.
UsesProxyFlagOnly(req) == req.use_proxy

\* use_proxy && PROXY_CONFIG.enabled
UsesProxy(req) == req.use_proxy /\ proxyEnabled

\* The invocation up to its first await: the target check, then launch.
\* Beside the function's own state (step, browser, the completion pending
\* across finally, the result), the record notes what happened to it:
\* launches and closes, whether navigation stalled, what evaluate returned,
\* whether close threw, and how long its job had waited (set by the drain
\* loop).
scrapeLinkedInProfile(req) ==
    LET base == [req |-> req, step |-> "launch", browser |-> FALSE,
                 launched |-> 0, closed |-> 0, proxyArg |-> FALSE,
                 pending |-> NoResult, result |-> NoResult,
                 navLeft |-> 0, navHangs |-> FALSE,
                 stalled |-> FALSE, extracted |-> {}, closeThrew |-> FALSE,
                 waited |-> -1]
        chk == CheckTarget(req.url)
    IN  IF chk = "invalid"
        THEN [base EXCEPT !.step = "settled",
                          !.result = Rejected(Err("InvalidUrl", FALSE))]
        ELSE IF chk = "throws"
        THEN [base EXCEPT !.step = "settled",
                          !.result = Rejected(Err("TypeError", FALSE))]
        ELSE [base EXCEPT !.proxyArg = UsesProxy(req)]

\* Faulty variant: the browser is closed at the end of the try body only, so
\* a failed run returns without closing it.
FinallyOnSuccessOnly(c, r) ==
    IF c.browser /\ r.ok
    THEN [c EXCEPT !.step = "close", !.pending = r, !.closed = @ + 1,
                   !.navLeft = 0, !.navHangs = FALSE]
    ELSE [c EXCEPT !.step = "settled", !.result = r]

\* Faulty variant: the browser is closed in the catch block only, so a
\* successful run returns with it open.
FinallyOnFailureOnly(c, r) ==
    IF c.browser /\ ~r.ok
    THEN [c EXCEPT !.step = "close", !.pending = r, !.closed = @ + 1,
                   !.navLeft = 0, !.navHangs = FALSE]
    ELSE [c EXCEPT !.step = "settled", !.result = r]

\* finally { if (browser) await browser.close(); } with the completion `r`
\* of the try/catch still to be delivered.
Finally(c, r) ==
    IF c.browser
    THEN [c EXCEPT !.step = "close", !.pending = r, !.closed = @ + 1,
                   !.navLeft = 0, !.navHangs = FALSE]
    ELSE [c EXCEPT !.step = "settled", !.result = r]

\* Faulty variant: the catch logs the error and does not rethrow it.
OrchFailSwallows(c, cause) == Finally(c, Fulfilled({}))

\* Faulty variant: the catch throws a fixed message, without error.message.
OrchFailGeneric(c, cause) == Finally(c, Rejected(Err("scrape", TRUE)))

\* catch (error) { throw new Error(`Failed to scrape ...: ${error.message}`) }
OrchFail(c, cause) == Finally(c, Rejected(Err(cause, TRUE)))

\* The step after page.setExtraHTTPHeaders.
AfterHeaders(c) ==
    IF UsesProxy(c.req) THEN "authenticate" ELSE "goto"

\* Enter the next driver call.
Enter(c, step) ==
    [c EXCEPT !.step = step,
              !.navLeft = IF step = "goto" THEN NAV_TIMEOUT ELSE 0,
              !.navHangs = FALSE]

\* The awaited driver promise fulfilled with `data`.
OrchOk(c, data) ==
    CASE c.step = "launch" ->
            Enter([c EXCEPT !.browser = TRUE, !.launched = @ + 1], "newPage")
      [] c.step = "newPage" -> Enter(c, "setViewport")
      [] c.step = "setViewport" -> Enter(c, "setExtraHTTPHeaders")
      [] c.step = "setExtraHTTPHeaders" -> Enter(c, AfterHeaders(c))
      [] c.step = "authenticate" -> Enter(c, "goto")
      [] c.step = "goto" -> Enter(c, "waitForTimeout")
      [] c.step = "waitForTimeout" -> Enter(c, "evaluate")
      [] c.step = "evaluate" ->
            Finally([c EXCEPT !.extracted = data], Fulfilled(data \cup Metadata))
      [] c.step = "close" ->
            [c EXCEPT !.step = "settled", !.result = c.pending, !.pending = NoResult]

\* Faulty variant: an error of browser.close() is swallowed.
OrchRejectIgnoresClose(c) ==
    IF c.step = "close"
    THEN [c EXCEPT !.step = "settled", !.result = c.pending,
                   !.pending = NoResult, !.closeThrew = TRUE]
    ELSE OrchFail(c, c.step)

\* The awaited driver promise rejected.
OrchReject(c) ==
    IF c.step = "close"
    THEN [c EXCEPT !.step = "settled", !.result = Rejected(Err("close", FALSE)),
                   !.pending = NoResult, !.closeThrew = TRUE]
    ELSE OrchFail(c, c.step)

\* scrapeLinkedInProfile resumed when the driver promise it awaits settles.
OrchResume(c, out) == IF out.ok THEN OrchOk(c, out.data) ELSE OrchReject(c)

\* An invocation that returned earlier: whether it fulfilled and its launch
\* and close counts are kept, the value it settled with is not.
Returned(c) ==
    IF c.step = "settled"
    THEN [c EXCEPT !.result = IF @.ok THEN Fulfilled({}) ELSE Rejected(NoErr),
                   !.stalled = FALSE, !.extracted = {}, !.closeThrew = FALSE,
                   !.waited = -1]
    ELSE c

\* ----------------------------------------------------------- processQueue
\* A processQueue() activation: where it is suspended, the invocation it
\* awaits, and the ticks left on its setTimeout.
Loop(pc, call, timer) == [pc |-> pc, call |-> call, timer |-> timer]

\* Faulty variant: the isProcessing test is missing.
DrainIgnoresFlag(flag, queue) == Len(queue) = 0

\* Faulty variant: the test for an empty queue is missing.
DrainIgnoresEmpty(flag, queue) == flag

\* if (isProcessing || requestQueue.length === 0) return;
DrainReturnsEarly(flag, queue) == flag \/ Len(queue) = 0

\* Faulty variant: no catch, the rejection leaves processQueue.
CatchesNothing(e) == FALSE

\* The try/catch around the awaited invocation: every rejection is caught.
CatchesError(e) == TRUE

\* Faulty variant: a record carrying extraction_error is answered as a failure.
RespondStrict(result) ==
    IF result.ok /\ "extraction_error" \notin result.data
    THEN Response(200, TRUE, result.data, NoErr)
    ELSE Response(500, FALSE, {}, Err("evaluate", TRUE))

\* response.json({success: true, data: result}) or, in the catch,
\* response.status(500).json({success: false, error: error.message}).
Respond(result) ==
    IF result.ok
    THEN Response(200, TRUE, result.data, NoErr)
    ELSE Response(500, FALSE, {}, result.error)

\* Faulty variant: the delay is skipped when one job is left.
NeedsDelayOffByOne(queue) == Len(queue) > 1

\* Faulty variant: the delay is taken after every job.
NeedsDelayAlways(queue) == TRUE

\* if (requestQueue.length > 0) after a job has been answered.
NeedsDelay(queue) == Len(queue) > 0

\* Faulty variant: the delay is the wait_time of the job just answered.
DelayForWaitTime(req) == req.wait_time

\* setTimeout(resolve, RATE_LIMIT_DELAY)
DelayFor(req) == RATE_LIMIT_DELAY

\* Faulty variant: the loop stops with one entry left.
HasPendingOffByOne(queue) == Len(queue) > 1

\* The loop condition requestQueue.length > 0.
HasPending(queue) == Len(queue) > 0

\* The id of the job at the head of the queue, 0 when it is empty.
HeadId(queue) == IF Len(queue) > 0 THEN Head(queue).id ELSE 0

NoLast == [next |-> 0, elapsed |-> 0]

RECURSIVE LoopTop(_, _)

\* Faulty variant: the loop body answers one job and ends the drain, whatever
\* is left in the queue.
AfterJobEndsDrain(S, l, req, result) ==
    [Send(S, req.id, Respond(result)) EXCEPT
        !.resolved = Append(@, req.id),
        !.flag = FALSE,
        !.loops[l] = Loop("done", 0, 0)]

\* The loop body after `await scrapeLinkedInProfile(request)` has settled
\* with `result`: answer the job, then delay or go round the loop.
AfterJob(S, l, req, result) ==
    IF ~result.ok /\ ~CatchesError(result.error)
    THEN [S EXCEPT !.loops[l] = Loop("aborted", 0, 0), !.qerrs = @ + 1]
    ELSE
      LET T == [Send(S, req.id, Respond(result)) EXCEPT
                         !.resolved = Append(@, req.id),
                         !.last = [next |-> HeadId(S.queue), elapsed |-> 0]]
      IN  IF NeedsDelay(T.queue)
          THEN [T EXCEPT !.loops[l] = Loop("delay", 0, DelayFor(req))]
          ELSE LoopTop(T, l)

\* Faulty variant: requestQueue.pop(), the newest entry first.
DequeuePop(queue) ==
    [req |-> queue[Len(queue)], rest |-> SubSeq(queue, 1, Len(queue) - 1)]

\* Faulty variant: requestQueue[0], the entry is read but not removed.
DequeuePeek(queue) == [req |-> Head(queue), rest |-> queue]

\* requestQueue.shift(): the entry removed and what is left.
Dequeue(queue) == [req |-> Head(queue), rest |-> Tail(queue)]

\* const {request, response} = requestQueue.shift(); then the invocation up
\* to its first await.
Iterate(S, l) ==
    LET req == Dequeue(S.queue).req
        c == [scrapeLinkedInProfile(req) EXCEPT
                 !.waited = IF S.last.next = req.id THEN S.last.elapsed ELSE -1]
        T == [S EXCEPT !.queue = Dequeue(S.queue).rest,
                       !.calls = Append([k \in 1..Len(@) |-> Returned(@[k])], c),
                       !.last = IF @.next = req.id THEN NoLast ELSE @]
    IN  IF c.step = "settled"
        THEN AfterJob(T, l, req, c.result)
        ELSE [T EXCEPT !.loops[l] = Loop("orch", Len(T.calls), 0)]

\* while (requestQueue.length > 0) { ... }  isProcessing = false;
LoopTop(S, l) ==
    IF HasPending(S.queue)
    THEN Iterate(S, l)
    ELSE [S EXCEPT !.flag = FALSE, !.loops[l] = Loop("done", 0, 0)]

\* Faulty variant: the call starts no drain.
processQueueNeverStarts(S) == S

\* processQueue(), called from the request handler.
processQueue(S) ==
    IF DrainReturnsEarly(S.flag, S.queue)
    THEN S
    ELSE LoopTop([S EXCEPT !.flag = TRUE,
                           !.loops = Append(@, Loop("start", 0, 0))],
                 Len(S.loops) + 1)

\* ------------------------------------------------------------ POST /scrape
\* The handler's two url checks: "required", "format", "throws" (url has no
\* includes method) or "ok".
ValidateUrl(url) ==
    IF ~Truthy(url) THEN "required"
    ELSE IF url.t # "string" THEN "throws"
    ELSE IF ~Includes(url.s, PROFILE_PATTERN) THEN "format"
    ELSE "ok"

\* The request object pushed on the queue, with the id of its res object.
QueuedRequest(id, body) ==
    [id |-> id, url |-> body.url, use_proxy |-> body.use_proxy,
     wait_time |-> OrDefault(body.wait_time, RATE_LIMIT_DELAY),
     retry_attempts |-> OrDefault(body.retry_attempts, DEFAULT_RETRY_ATTEMPTS)]

\* Faulty variant: requestQueue.unshift(entry), the newest entry in front.
EnqueueFront(queue, entry) == <<entry>> \o queue

\* requestQueue.push(entry)
Enqueue(queue, entry) == Append(queue, entry)

\* The handler's effect for request `id` with `body`.
HandleScrape(S, id, body) ==
    LET v == ValidateUrl(body.url)
    IN  CASE v = "required" ->
              Send(S, id, Response(400, FALSE, {}, Err("UrlRequired", FALSE)))
          [] v = "format" ->
              Send(S, id, Response(400, FALSE, {}, Err("UrlFormat", FALSE)))
          [] v = "throws" ->
              Send(S, id, Response(500, FALSE, {}, Err("InternalServerError", FALSE)))
          [] OTHER ->
              processQueue([S EXCEPT !.queue = Enqueue(@, QueuedRequest(id, body))])

\* What a handler run changed, seen from outside: whether the scheduler's
\* state (queue, flag, drain loops, invocations) is as before, and how many
\* entries were pushed.
NoPost == [id |-> 0, url |-> Undefined, untouched |-> TRUE, pushed |-> 0]
Observe(id, url, S, T) ==
    [id |-> id, url |-> url,
     untouched |-> /\ T.queue = S.queue /\ T.flag = S.flag
                   /\ T.loops = S.loops /\ T.calls = S.calls,
     pushed |-> (Len(T.queue) + Len(T.calls)) - (Len(S.queue) + Len(S.calls))]

\* ------------------------------------------------------------------ actions
Init ==
    /\ alive = TRUE
    /\ PROXY_CONFIG \in ServiceEnvironments
    /\ requestQueue = <<>>
    /\ isProcessing = FALSE
    /\ loops = <<>>
    /\ calls = <<>>
    /\ answered = [i \in 1..MaxRequests |-> 0]
    /\ lastAnswer = NoAnswer
    /\ resolved = <<>>
    /\ last = NoLast
    /\ nreq = 0
    /\ accepted = {}
    /\ lastPost = NoPost
    /\ queueErrors = 0

\* A POST /scrape request with one of `bodies` arrives and its handler runs;
\* at most n arrive.
PostScrapeFrom(bodies, n) ==
    /\ alive
    /\ nreq < n
    /\ \E body \in bodies :
          LET T == HandleScrape(Cur, nreq + 1, body)
              o == Observe(nreq + 1, body.url, Cur, T)
          IN  /\ nreq' = nreq + 1
              /\ Commit(T)
              /\ lastPost' = o
              /\ accepted' = IF o.pushed > 0
                             THEN accepted \cup {nreq + 1} ELSE accepted
    /\ UNCHANGED <<alive, PROXY_CONFIG>>

PostScrape == PostScrapeFrom(Bodies, MaxRequests)

\* The requests of the runs of accepted jobs only: those that become jobs.
JobBodies == {b \in Bodies : ValidateUrl(b.url) = "ok"}
PostScrapeLive == PostScrapeFrom(JobBodies, MaxLiveRequests)

\* The loop awaiting invocation c, 0 when none does.
Awaiting(S, c) ==
    IF \E l \in 1..Len(S.loops) : S.loops[l].pc = "orch" /\ S.loops[l].call = c
    THEN CHOOSE l \in 1..Len(S.loops) : S.loops[l].pc = "orch" /\ S.loops[l].call = c
    ELSE 0

\* Invocation c has been resumed into state d: if that settled it, the drain
\* loop awaiting it resumes in the same turn.
Resumed(S, c, d) ==
    LET T == [S EXCEPT !.calls[c] = d]
        l == Awaiting(S, c)
    IN  IF d.step = "settled" /\ l # 0
        THEN AfterJob(T, l, d.req, d.result)
        ELSE T

\* The driver promise invocation c awaits settles.
DriverSettles ==
    /\ alive
    /\ \E c \in 1..Len(calls) :
          /\ calls[c].step \in DriverSteps
          /\ ~calls[c].navHangs
          /\ \E out \in DriverOutcomes(calls[c].step) :
                Commit(Resumed(Cur, c, OrchResume(calls[c], out)))
    /\ UNCHANGED <<alive, PROXY_CONFIG, nreq, accepted, lastPost>>

\* The page never finishes loading: page.goto will not settle on its own.
NavigateStalls ==
    /\ alive
    /\ \E c \in 1..Len(calls) :
          /\ calls[c].step = "goto"
          /\ ~calls[c].navHangs
          /\ calls' = [calls EXCEPT ![c].navHangs = TRUE, ![c].stalled = TRUE]
    /\ UNCHANGED <<alive, PROXY_CONFIG, requestQueue, isProcessing, loops,
                   answered, lastAnswer, resolved, last, nreq, accepted, lastPost,
                   queueErrors>>

\* page.goto's timeout fires: it rejects with a TimeoutError.
NavDeadline ==
    /\ alive
    /\ \E c \in 1..Len(calls) :
          /\ calls[c].step = "goto"
          /\ calls[c].navLeft = 0
          /\ Commit(Resumed(Cur, c, OrchFail(calls[c], "gotoTimeout")))
    /\ UNCHANGED <<alive, PROXY_CONFIG, nreq, accepted, lastPost>>

\* The setTimeout of the inter-job delay fires and the loop goes round.
DelayDone ==
    /\ alive
    /\ \E l \in 1..Len(loops) :
          /\ loops[l].pc = "delay"
          /\ loops[l].timer = 0
          /\ Commit(LoopTop(Cur, l))
    /\ UNCHANGED <<alive, PROXY_CONFIG, nreq, accepted, lastPost>>

Dec(n) == IF n > 0 THEN n - 1 ELSE 0

\* One tick of the clock: every running timer moves on.
Tick ==
    /\ alive
    /\ loops' = [l \in 1..Len(loops) |-> [loops[l] EXCEPT !.timer = Dec(@)]]
    /\ calls' = [c \in 1..Len(calls) |-> [calls[c] EXCEPT !.navLeft = Dec(@)]]
    /\ last' = IF last.next # 0 /\ last.elapsed < RATE_LIMIT_DELAY
               THEN [last EXCEPT !.elapsed = @ + 1]
               ELSE last
    /\ <<loops', calls', last'>> # <<loops, calls, last>>
    /\ UNCHANGED <<alive, PROXY_CONFIG, requestQueue, isProcessing,
                   answered, lastAnswer, resolved, nreq, accepted, lastPost,
                   queueErrors>>

\* SIGTERM or SIGINT: process.exit(0).  The process is gone, and with it the
\* queue, the flag, the suspended functions and every open response.
Terminate ==
    /\ alive
    /\ alive' = FALSE
    /\ requestQueue' = <<>>
    /\ isProcessing' = FALSE
    /\ loops' = <<>>
    /\ calls' = <<>>
    /\ answered' = [i \in 1..MaxRequests |-> 0]
    /\ lastAnswer' = NoAnswer
    /\ resolved' = <<>>
    /\ last' = NoLast
    /\ nreq' = 0
    /\ accepted' = {}
    /\ lastPost' = NoPost
    /\ queueErrors' = 0
    /\ UNCHANGED PROXY_CONFIG

Next ==
    \/ PostScrape
    \/ DriverSettles
    \/ NavigateStalls
    \/ NavDeadline
    \/ DelayDone
    \/ Tick
    \/ Terminate

Spec == Init /\ [][Next]_vars

\* The service left running: no termination signal arrives, and as long as a
\* timer is running or due, or a driver call can settle, one of them does.
NextLive ==
    \/ PostScrapeLive
    \/ DriverSettles
    \/ NavigateStalls
    \/ NavDeadline
    \/ DelayDone
    \/ Tick

Progress ==
    \/ DriverSettles
    \/ NavDeadline
    \/ DelayDone
    \/ Tick

\* The progress runs start with the proxy configured: a job with use_proxy
\* then authenticates and a job without does not, so both step sequences
\* of the orchestrator occur.
InitLive == Init /\ proxyEnabled

FairSpec == InitLive /\ [][NextLive]_vars /\ WF_vars(Progress)

\* The service receiving only requests that become jobs, in either
\* environment, with no termination signal and no fairness assumed.
SpecJobs == Init /\ [][NextLive]_vars

\* ------------------------------------------- the orchestrator on its own
\* scrapeLinkedInProfile(requestData) called directly, on request data of
\* every shape the target check distinguishes.  A url without an includes
\* method is left out: the handler throws on it before anything is queued.
DirectRequests ==
    { QueuedRequest(1, b) : b \in {x \in Bodies \cup MoreBodies : x.url.t # "number"} }

\* scrapeLinkedInProfile called once, directly, with any of DirectRequests.
DirectCall ==
    /\ alive
    /\ calls = <<>>
    /\ \E req \in DirectRequests : calls' = <<scrapeLinkedInProfile(req)>>
    /\ UNCHANGED <<alive, PROXY_CONFIG, requestQueue, isProcessing, loops,
                   answered, lastAnswer, resolved, last, nreq, accepted,
                   lastPost, queueErrors>>

NextOrch ==
    \/ DirectCall
    \/ DriverSettles
    \/ NavigateStalls
    \/ NavDeadline
    \/ Tick

\* The start of the service in any environment, before a request arrives.
InitOrch ==
    /\ alive = TRUE
    /\ PROXY_CONFIG \in AllEnvironments
    /\ requestQueue = <<>>
    /\ isProcessing = FALSE
    /\ loops = <<>>
    /\ calls = <<>>
    /\ answered = [i \in 1..MaxRequests |-> 0]
    /\ lastAnswer = NoAnswer
    /\ resolved = <<>>
    /\ last = NoLast
    /\ nreq = 0
    /\ accepted = {}
    /\ lastPost = NoPost
    /\ queueErrors = 0

SpecOrch == InitOrch /\ [][NextOrch]_vars

\* =================================================================== claims
\* Vocabulary of the claims.
SeqRange(q) == {q[i] : i \in 1..Len(q)}
QueuedIds == {requestQueue[i].id : i \in 1..Len(requestQueue)}
CallsOf(id) == {c \in 1..Len(calls) : calls[c].req.id = id}
InFlight == {c \in 1..Len(calls) : calls[c].step # "settled"}
Idle == ~isProcessing /\ requestQueue = <<>>
\* The url is present and contains the profile-locator pattern.
MatchesProfilePattern(url) ==
    url.t = "string" /\ url.s # <<>> /\ Includes(url.s, PROFILE_PATTERN)

\* C1: the jobs accepted by POST /scrape are answered by the drain loop once
\* each and in submission order: the answered ids never repeat, ascend, leave
\* no earlier accepted job behind, and once the scheduler is idle every
\* accepted job has been answered, with 200 or 500.
C1_ExactlyOnceFifo ==
    /\ \A i, j \in 1..Len(resolved) : i < j => resolved[i] < resolved[j]
    /\ SeqRange(resolved) \subseteq accepted
    /\ \A r \in SeqRange(resolved) : \A a \in accepted :
          a < r => a \in SeqRange(resolved)
    /\ \A r \in SeqRange(resolved) : answered[r] \in {200, 500}
    /\ Idle => SeqRange(resolved) = accepted

\* Three accepted jobs, all answered in order, the first failed and the
\* second succeeded.
C1_Witness ==
    /\ Idle
    /\ resolved = <<1, 2, 3>>
    /\ answered[1] = 500
    /\ answered[2] = 200

\* C2: at most one scrapeLinkedInProfile invocation is in flight, and while
\* one is in flight isProcessing is true.
C2_SingleInvocation ==
    /\ Cardinality(InFlight) <= 1
    /\ InFlight # {} => isProcessing

\* Job 2 runs while job 3, posted during the drain, is pending.
C2_Witness ==
    /\ \E c \in InFlight : calls[c].req.id = 2
    /\ QueuedIds = {3}

\* C3: an invocation that has returned made as many browser.close() calls as
\* successful launches, at most one of each; before it returns it never made
\* more closes than launches.
C3_CloseMatchesLaunch ==
    \A c \in 1..Len(calls) :
        /\ calls[c].launched <= 1
        /\ calls[c].closed <= calls[c].launched
        /\ calls[c].step = "settled" => calls[c].closed = calls[c].launched

\* A run whose navigation timed out has returned with one launch, one close.
C3_Witness ==
    \E c \in 1..Len(calls) :
        /\ calls[c].step = "settled"
        /\ calls[c].result.error = Err("gotoTimeout", TRUE)
        /\ calls[c].launched = 1
        /\ calls[c].closed = 1

\* C4: a rejected invocation never leaves processQueue or stops the drain:
\* nothing reaches processQueue's .catch, no loop is aborted, the job is
\* answered 500 with success false and the error's message, and pending jobs
\* always have a drain loop that is awaiting an invocation or the delay (the
\* delay being RATE_LIMIT_DELAY when it starts).
C4_FailureIsAnswered ==
    /\ queueErrors = 0
    /\ \A l \in 1..Len(loops) : loops[l].pc # "aborted"
    /\ \A c \in 1..Len(calls) :
          (calls[c].step = "settled" /\ ~calls[c].result.ok) =>
              /\ answered[calls[c].req.id] = 500
              /\ (c = Len(calls) /\ lastAnswer.id = calls[c].req.id) =>
                    lastAnswer.resp = Response(500, FALSE, {}, calls[c].result.error)
    /\ requestQueue # <<>> =>
          \E l \in 1..Len(loops) : loops[l].pc \in {"orch", "delay"}
    /\ \A l \in 1..Len(loops) :
          loops[l].pc = "delay" =>
              loops[l].timer = RATE_LIMIT_DELAY - last.elapsed

\* Job 1 failed and was answered 500; job 2 was then started after the delay.
C4_Witness ==
    /\ Len(calls) = 2
    /\ calls[1].step = "settled" /\ ~calls[1].result.ok
    /\ answered[1] = 500
    /\ calls[2].req.id = 2 /\ calls[2].waited >= 0

\* C5: an invocation for a job that was already pending when the previous
\* job was answered starts only after RATE_LIMIT_DELAY ticks have passed
\* since that answer.
C5_FullDelay ==
    \A c \in 1..Len(calls) :
        calls[c].waited # -1 => calls[c].waited >= RATE_LIMIT_DELAY

\* Job 2 was pending when job 1 was answered with a failure, and has started.
C5_Witness ==
    /\ Len(calls) = 2
    /\ answered[1] = 500
    /\ calls[2].waited = RATE_LIMIT_DELAY

Latest == Len(calls)
\* Job id is being navigated to and the page will not finish loading.
StalledNavigation(id) ==
    \E c \in InFlight :
        calls[c].req.id = id /\ calls[c].step = "goto" /\ calls[c].navHangs

\* C7 as stated: a job whose navigation stalled has, once its invocation
\* returned, been closed once and answered 500 with the wrapped navigation
\* timeout error.
C7_StalledIsNavigationTimeout ==
    (Latest > 0 /\ calls[Latest].stalled /\ calls[Latest].step = "settled") =>
        /\ calls[Latest].closed = 1
        /\ calls[Latest].result = Rejected(Err("gotoTimeout", TRUE))
        /\ answered[calls[Latest].req.id] = 500

\* C7 as amended, safety part: a stalled navigation can only end by the
\* deadline; the invocation then closes the browser once and the job is
\* answered 500, with the wrapped timeout error, or with close's own error
\* when browser.close() threw; pending jobs keep a live drain loop.
C7_StalledSafety ==
    /\ \A c \in 1..Len(calls) :
          (calls[c].stalled /\ calls[c].step # "goto") =>
              /\ calls[c].closed = 1
              /\ calls[c].step \in {"close", "settled"}
              /\ calls[c].step = "close" =>
                    calls[c].pending = Rejected(Err("gotoTimeout", TRUE))
              /\ calls[c].step = "settled" =>
                    /\ calls[c].result \in {Rejected(Err("gotoTimeout", TRUE)),
                                            Rejected(Err("close", FALSE))}
                    /\ answered[calls[c].req.id] = 500
                    /\ lastAnswer.id = calls[c].req.id =>
                          lastAnswer.resp = Response(500, FALSE, {}, calls[c].result.error)
    /\ (requestQueue # <<>> /\ InFlight = {}) =>
          \E l \in 1..Len(loops) : loops[l].pc = "delay"

\* Some invocation is in a navigation that will not finish on its own.
SomeStalledNavigation == \E id \in 1..MaxRequests : StalledNavigation(id)

\* C7 as amended: the safety part always holds, a stalled navigation always
\* comes to an end, and every invocation in flight eventually returns with
\* its job answered.
C7_StalledJobResolves ==
    /\ []C7_StalledSafety
    /\ SomeStalledNavigation ~> ~SomeStalledNavigation
    /\ (InFlight # {}) ~> (InFlight = {})

\* Job 1's navigation stalled and timed out; the browser was closed once, the
\* job answered 500 with the timeout error, and the loop is in the delay
\* before job 2.
C7_Witness ==
    /\ Len(calls) = 1
    /\ calls[1].stalled /\ calls[1].step = "settled"
    /\ calls[1].closed = 1
    /\ lastAnswer = [id |-> 1,
                     resp |-> Response(500, FALSE, {}, Err("gotoTimeout", TRUE))]
    /\ QueuedIds = {2}
    /\ \E l \in 1..Len(loops) : loops[l].pc = "delay"

\* C8 as stated: a job whose evaluate returned a mapping with
\* extraction_error is answered 200 with that mapping plus the metadata.
C8_PartialIsSuccess ==
    (/\ Latest > 0
     /\ calls[Latest].step = "settled"
     /\ "extraction_error" \in calls[Latest].extracted) =>
        /\ calls[Latest].result = Fulfilled(calls[Latest].extracted \cup Metadata)
        /\ answered[calls[Latest].req.id] = 200

\* C8 as amended: such a job is answered 200 with the mapping plus the
\* metadata, unless browser.close() threw, and then 500 with close's error.
C8_PartialIsSuccessUnlessCloseFails ==
    (/\ Latest > 0
     /\ calls[Latest].step = "settled"
     /\ "extraction_error" \in calls[Latest].extracted) =>
        LET c == calls[Latest]
            payload == c.extracted \cup Metadata
            sent == IF c.result.ok
                    THEN Response(200, TRUE, payload, NoErr)
                    ELSE Response(500, FALSE, {}, Err("close", FALSE))
        IN  /\ c.result \in {Fulfilled(payload), Rejected(Err("close", FALSE))}
            /\ answered[c.req.id] = sent.status
            /\ lastAnswer.id = c.req.id => lastAnswer.resp = sent

\* A partial record was delivered with status 200.
C8_Witness ==
    /\ Latest > 0
    /\ calls[Latest].step = "settled"
    /\ calls[Latest].extracted = {"name", "extraction_error"}
    /\ lastAnswer = [id |-> calls[Latest].req.id,
                     resp |-> Response(200, TRUE,
                                {"name", "extraction_error"} \cup Metadata, NoErr)]

\* C9 as stated: a POST /scrape whose url is absent or lacks the profile
\* pattern is answered 400 and leaves queue, flag, loops and invocations as
\* they were; any other POST pushes exactly one entry.
C9_InvalidUrlIs400 ==
    lastPost.id # 0 =>
        IF MatchesProfilePattern(lastPost.url)
        THEN lastPost.pushed = 1
        ELSE /\ answered[lastPost.id] = 400
             /\ lastPost.untouched
             /\ lastPost.pushed = 0

\* C10: every accepted job is either still queued, once, with no invocation,
\* or dequeued with exactly one invocation; an answered job is never back in
\* the queue; there are as many invocations as dequeued jobs.
C10_OneInvocationPerJob ==
    /\ \A id \in accepted :
          IF id \in QueuedIds
          THEN CallsOf(id) = {}
          ELSE Cardinality(CallsOf(id)) = 1
    /\ Cardinality(QueuedIds) = Len(requestQueue)
    /\ QueuedIds \subseteq accepted
    /\ SeqRange(resolved) \cap QueuedIds = {}
    /\ Len(calls) = Cardinality(accepted) - Len(requestQueue)

\* Two failed jobs, one with retry_attempts 5 and one with the default 2,
\* and the scheduler is idle again with one invocation each.
C10_Witness ==
    /\ Idle
    /\ \E c, d \in 1..Len(calls) :
          /\ calls[c].req.retry_attempts = 5
          /\ calls[d].req.retry_attempts = DEFAULT_RETRY_ATTEMPTS
          /\ ~calls[c].result.ok /\ ~calls[d].result.ok
          /\ answered[calls[c].req.id] = 500 /\ answered[calls[d].req.id] = 500

\* The drain loops suspended at an await: on an invocation or on the delay.
ActiveLoops == {l \in 1..Len(loops) : loops[l].pc \in {"orch", "delay"}}

\* C11: a job accepted while isProcessing is true goes to the end of the
\* queue, behind the entries already there, and starts neither a drain loop
\* nor an invocation; an invocation begun while draining is begun by a loop
\* that was already running; no accepted job is lost (each is queued, or has
\* its invocation); and while the queue is non-empty the flag is set and
\* exactly one loop is suspended on an invocation or on the delay.
C11_SubmitDuringDrain ==
    /\ [](/\ accepted = QueuedIds \cup {calls[c].req.id : c \in 1..Len(calls)}
          /\ requestQueue # <<>> =>
                isProcessing /\ Cardinality(ActiveLoops) = 1)
    /\ [][(isProcessing /\ nreq' = nreq + 1 /\ (nreq + 1) \in accepted') =>
             /\ Len(requestQueue') = Len(requestQueue) + 1
             /\ SubSeq(requestQueue', 1, Len(requestQueue)) = requestQueue
             /\ requestQueue'[Len(requestQueue')].id = nreq + 1
             /\ loops' = loops
             /\ calls' = calls
             /\ isProcessing']_vars
    /\ [][(isProcessing /\ Len(calls') > Len(calls)) =>
             /\ Len(loops') = Len(loops)
             /\ calls'[Len(calls')].req.id = HeadId(requestQueue)]_vars

\* Three jobs, the second and third accepted during the drain the first one
\* started, have all been answered by that one loop, which has ended.
C11_Witness ==
    /\ Idle
    /\ Len(loops) = 1
    /\ loops[1].pc = "done"
    /\ Len(calls) = 3
    /\ resolved = <<1, 2, 3>>

\* C12: in every reachable state where isProcessing is true or the queue is
\* empty, processQueue() returns at once: the state it leaves (queue, flag,
\* drain loops, invocations, responses) is the state it found.
C12_DrainIdempotent ==
    (isProcessing \/ requestQueue = <<>>) => processQueue(Cur) = Cur

\* The handler of request 2 has pushed its entry and called processQueue()
\* while job 1's invocation was awaited: one loop, one invocation, as before.
C12_Witness ==
    /\ isProcessing
    /\ lastPost.id = 2
    /\ lastPost.pushed = 1
    /\ Len(loops) = 1 /\ loops[1].pc = "orch"
    /\ Len(calls) = 1 /\ calls[1].req.id = 1
    /\ QueuedIds = {2}

\* Invocation c holds a browser it launched and whose close() has not been
\* called, or has been called and has not settled yet.
SessionOpen(c) ==
    /\ calls[c].launched > 0
    /\ calls[c].closed < calls[c].launched \/ calls[c].step = "close"
OpenSessions == {c \in 1..Len(calls) : SessionOpen(c)}

\* C13: at most one browser session is open; an invocation that has returned
\* holds none, so none is open for a job that has been answered; and none is
\* open while a drain loop waits out the inter-job delay or when no
\* invocation is in flight.
C13_OneSessionClosedOnReturn ==
    /\ Cardinality(OpenSessions) <= 1
    /\ \A c \in 1..Len(calls) : calls[c].step = "settled" => ~SessionOpen(c)
    /\ \A id \in SeqRange(resolved) : \A c \in CallsOf(id) : ~SessionOpen(c)
    /\ (\E l \in 1..Len(loops) : loops[l].pc = "delay") => OpenSessions = {}
    /\ InFlight = {} => OpenSessions = {}

\* Job 1 succeeded with a browser launched and closed once, it has been
\* answered, and the loop is in the delay before job 2 with no session open.
C13_Witness ==
    /\ Len(calls) = 1
    /\ calls[1].step = "settled" /\ calls[1].result.ok
    /\ calls[1].launched = 1 /\ calls[1].closed = 1
    /\ answered[1] = 200
    /\ \E l \in 1..Len(loops) : loops[l].pc = "delay"
    /\ QueuedIds = {2}
    /\ OpenSessions = {}

\* The driver calls made on the launched browser before it is closed.
SessionSteps == DriverSteps \ {"launch", "close"}
\* The four failures the claim names, as the errors the invocation throws.
NamedFailures ==
    {Err("InvalidUrl", FALSE), Err("launch", TRUE),
     Err("gotoTimeout", TRUE), Err("evaluate", TRUE)}

\* The errors the catch can throw when the driver call invocation c awaits
\* fails: the wrapped error of that call; for page.goto its own error unless
\* the page hangs, and the timeout error once the deadline has come.
StepFailures(c) ==
    IF c.step = "goto"
    THEN (IF c.navHangs THEN {} ELSE {Err("goto", TRUE)}) \cup
         (IF c.navLeft = 0 THEN {Err("gotoTimeout", TRUE)} ELSE {})
    ELSE {Err(c.step, TRUE)}

C15_FlagClearedOnEmptyQueue ==
    [][(isProcessing /\ ~isProcessing' /\ alive') =>
          /\ requestQueue = <<>>
          /\ requestQueue' = <<>>
          /\ \E l \in ActiveLoops : loops'[l].pc = "done"]_vars

\* Two jobs were drained by one loop, which then found the queue empty and
\* cleared the flag.
C15_Witness ==
    /\ ~isProcessing
    /\ requestQueue = <<>>
    /\ nreq = 2
    /\ resolved = <<1, 2>>
    /\ Len(loops) = 1 /\ loops[1].pc = "done"

\* C17: in every state between two turns of the event loop, a non-empty
\* queue has isProcessing true and a drain loop suspended on an invocation or
\* on the delay.
C17_PendingImpliesDraining ==
    requestQueue # <<>> => isProcessing /\ ActiveLoops # {}

\* Two jobs are pending behind an answered one while the loop is in the delay.
C17_Witness ==
    /\ Len(requestQueue) = 2
    /\ isProcessing
    /\ resolved = <<1>>
    /\ \E l \in ActiveLoops : loops[l].pc = "delay"

\* The job of invocation c asks for the proxy and the environment set both
\* PROXY_ENDPOINT and PROXY_USERNAME.
Proxied(c) ==
    calls[c].req.use_proxy /\ PROXY_CONFIG.endpoint /\ PROXY_CONFIG.username

\* The moves of invocation c from one awaited driver call to the next: the
\* fixed order when each call succeeds, with authenticate between the
\* headers and the navigation exactly when proxied; and on a failure, from
\* launch straight to the return, from any call on the session to close.
StepOrder(c) ==
    {<<"launch", "newPage">>, <<"newPage", "setViewport">>,
     <<"setViewport", "setExtraHTTPHeaders">>,
     <<"goto", "waitForTimeout">>, <<"waitForTimeout", "evaluate">>,
     <<"evaluate", "close">>, <<"close", "settled">>, <<"launch", "settled">>}
    \cup (IF Proxied(c)
          THEN {<<"setExtraHTTPHeaders", "authenticate">>, <<"authenticate", "goto">>}
          ELSE {<<"setExtraHTTPHeaders", "goto">>})
    \cup {<<s, "close">> : s \in SessionSteps}

\* C16: an invocation moves through its driver calls in the fixed order,
\* closing last; the --proxy-server launch argument is given, and
\* page.authenticate is awaited (after the headers, before page.goto),
\* exactly when the job's use_proxy is set and both PROXY_ENDPOINT and
\* PROXY_USERNAME are.
C16_StepOrderAndProxy ==
    /\ [](\A c \in 1..Len(calls) :
            /\ calls[c].step \in DriverSteps \cup {"settled"}
            /\ calls[c].proxyArg = (Proxied(c) /\ MatchesProfilePattern(calls[c].req.url))
            /\ calls[c].step = "authenticate" => Proxied(c)
            /\ calls[c].launched = 0 => calls[c].step \in {"launch", "settled"})
    /\ [][\A c \in 1..Len(calls) :
            calls'[c].step # calls[c].step =>
                <<calls[c].step, calls'[c].step>> \in StepOrder(c)]_vars

\* A proxied job in a fully configured environment is navigating: launched
\* with the proxy argument and, by the order, authenticated.
C16_Witness ==
    /\ PROXY_CONFIG = ProxyConfig(TRUE, TRUE)
    /\ Len(calls) = 1
    /\ calls[1].req.use_proxy
    /\ calls[1].proxyArg
    /\ calls[1].step = "goto"

\* Some accepted job has not been answered by the drain loop yet.
SomeUnresolved == accepted # SeqRange(resolved)

\* C18: with no termination signal, and every driver call settling (a
\* navigation that hangs being failed by its deadline), whenever an accepted
\* job is unanswered a moment comes when every job accepted by then has been
\* answered (jobs stay accepted and answered, so each one is answered); and
\* from some point on, once no request arrives any more, the scheduler is
\* idle for good, nothing in flight, every accepted job answered.
C18_EveryJobResolves ==
    /\ SomeUnresolved ~> ~SomeUnresolved
    /\ <>[](Idle /\ InFlight = {} /\ ~SomeUnresolved)

\* Both jobs of a run have been answered, the second after a navigation
\* that hung, and the scheduler is idle.
C18_Witness ==
    /\ Idle
    /\ accepted = {1, 2}
    /\ resolved = <<1, 2>>
    /\ calls[2].stalled
    /\ answered[2] = 500

\* The drain loops waiting out the inter-job delay.
DelayingLoops == {l \in 1..Len(loops) : loops[l].pc = "delay"}

\* C19: a loop is in the delay only while the queue is non-empty.  In the
\* step that answers a job: if the queue is empty the drain ends there (flag
\* cleared, no loop left suspended), otherwise the loop starts a delay of
\* RATE_LIMIT_DELAY with the queue as it was.  A job accepted while the flag
\* is clear is dequeued and its invocation started, up to the launch, within
\* the handler's own step, by a new loop, with no delay before it.
C19_DelayOnlyBetweenJobs ==
    /\ [](DelayingLoops # {} => requestQueue # <<>>)
    /\ [][Len(resolved') = Len(resolved) + 1 =>
             IF requestQueue = <<>>
             THEN /\ ~isProcessing'
                  /\ requestQueue' = <<>>
                  /\ \A l \in 1..Len(loops') : loops'[l].pc = "done"
             ELSE /\ isProcessing'
                  /\ requestQueue' = requestQueue
                  /\ \E l \in ActiveLoops :
                        loops'[l] = Loop("delay", 0, RATE_LIMIT_DELAY)]_vars
    /\ [][(~isProcessing /\ nreq' = nreq + 1 /\ (nreq + 1) \in accepted') =>
             /\ requestQueue' = <<>>
             /\ isProcessing'
             /\ Len(calls') = Len(calls) + 1
             /\ calls'[Len(calls')].req.id = nreq + 1
             /\ calls'[Len(calls')].step = "launch"
             /\ calls'[Len(calls')].waited = -1
             /\ loops' = Append(loops, Loop("orch", Len(calls'), 0))]_vars

\* Job 1 was answered with nothing pending and the drain ended; job 2,
\* posted afterwards, is being launched by a second loop without any delay.
C19_Witness ==
    /\ resolved = <<1>>
    /\ Len(loops) = 2
    /\ loops[1].pc = "done" /\ loops[2].pc = "orch"
    /\ Len(calls) = 2
    /\ calls[2].req.id = 2 /\ calls[2].step = "launch" /\ calls[2].waited = -1
    /\ requestQueue = <<>>

\* How often job id appears among the answered jobs.
TimesResolved(id) == Cardinality({i \in 1..Len(resolved) : resolved[i] = id})

\* C20: an invocation whose browser.close() threw has returned rejected with
\* close's error, and its job was answered once, with 500; when its
\* navigation and evaluation had succeeded, the record evaluate returned is
\* in no response: the answer is success false, no data, close's message.
\* The drain goes on: with jobs pending the loop is in the delay, otherwise
\* the drain has ended.
C20_CloseFailureFailsJob ==
    \A c \in 1..Len(calls) :
        calls[c].closeThrew =>
            /\ calls[c].step = "settled"
            /\ calls[c].closed = 1
            /\ calls[c].result = Rejected(Err("close", FALSE))
            /\ answered[calls[c].req.id] = 500
            /\ TimesResolved(calls[c].req.id) = 1
            /\ lastAnswer.id = calls[c].req.id =>
                  lastAnswer.resp = Response(500, FALSE, {}, Err("close", FALSE))
            /\ queueErrors = 0
            /\ c = Len(calls) =>
                  IF requestQueue # <<>>
                  THEN isProcessing /\ DelayingLoops # {}
                  ELSE ~isProcessing /\ ActiveLoops = {}

\* Job 1's navigation and evaluation succeeded and its close threw: the job
\* was answered 500 without the record, and the loop is in the delay before
\* job 2.
C20_Witness ==
    /\ Len(calls) = 1
    /\ calls[1].closeThrew
    /\ calls[1].extracted = {"name", "headline"}
    /\ lastAnswer = [id |-> 1,
                     resp |-> Response(500, FALSE, {}, Err("close", FALSE))]
    /\ resolved = <<1>>
    /\ QueuedIds = {2}
    /\ DelayingLoops # {}

\* The wait_time values a job can carry: those of the request bodies (the
\* default among them) and one above RATE_LIMIT_DELAY.
WaitTimes == {QueuedRequest(1, b).wait_time : b \in Bodies} \cup {RATE_LIMIT_DELAY + 1}
\* Request data r, invocation c, with another wait_time.
ReqWithWaitTime(r, w) == [r EXCEPT !.wait_time = w]
CallWithWaitTime(c, w) == [c EXCEPT !.req.wait_time = w]

\* C21: a drain loop that enters the delay sets its timer to
\* RATE_LIMIT_DELAY, and a job that waited for the delay waited exactly that
\* long, whatever the wait_time of the job before or after it.  No step reads
\* wait_time: with any other value on the job, the delay after it, the
\* start of its invocation and every resumption of its invocation are the
\* same, the value being carried along unchanged.
C21_WaitTimeIgnored ==
    /\ [](/\ \A c \in 1..Len(calls) :
                calls[c].waited # -1 => calls[c].waited = RATE_LIMIT_DELAY
          /\ \A w \in WaitTimes :
                /\ \A i \in 1..Len(requestQueue) :
                      /\ DelayFor(ReqWithWaitTime(requestQueue[i], w)) = RATE_LIMIT_DELAY
                      /\ scrapeLinkedInProfile(ReqWithWaitTime(requestQueue[i], w)) =
                            CallWithWaitTime(scrapeLinkedInProfile(requestQueue[i]), w)
                /\ \A c \in InFlight :
                      /\ DelayFor(ReqWithWaitTime(calls[c].req, w)) = RATE_LIMIT_DELAY
                      /\ \A out \in DriverOutcomes(calls[c].step) :
                            OrchResume(CallWithWaitTime(calls[c], w), out) =
                                CallWithWaitTime(OrchResume(calls[c], out), w))
    /\ [][\A l \in 1..Len(loops) :
            (l <= Len(loops') /\ loops[l].pc # "delay" /\ loops'[l].pc = "delay") =>
                loops'[l].timer = RATE_LIMIT_DELAY]_vars
    /\ [][\A l \in DelayingLoops :
            (l <= Len(loops') /\ loops'[l].pc # "delay") => loops[l].timer = 0]_vars

\* Two jobs that both carry wait_time 1, below RATE_LIMIT_DELAY: the second
\* has started after waiting the full RATE_LIMIT_DELAY.
C21_Witness ==
    /\ Len(calls) = 2
    /\ calls[1].req.wait_time = 1
    /\ calls[2].req.wait_time = 1
    /\ calls[1].req.wait_time < RATE_LIMIT_DELAY
    /\ calls[2].waited = RATE_LIMIT_DELAY

====
